---- MODULE Spec2Model ----
(***************************************************************************)
(* pygmmis: Gaussian mixture fit with truncated neighborhoods, imputation  *)
(* and split-and-merge (src/pygmmis.py).                                   *)
(*                                                                         *)
(* The model is one-dimensional (D = 1).  Real numbers are exact fractions *)
(* <<n, d>> in lowest terms with d > 0; <<0, 0>> is the floating-point NaN *)
(* that numpy produces for 0/0.  The transcendental parts of the kernels   *)
(* (responsibilities, log-densities) are inputs drawn from small grids;    *)
(* everything the driver itself computes (neighborhood truncation, the     *)
(* parameter update, displacement, convergence tests, backups) is computed *)
(* as the code computes it.                                                *)
(***************************************************************************)
EXTENDS Integers, Sequences, FiniteSets, TLC

(* ------------------------------ bounds --------------------------------- *)
NData == 2          \* number of observed samples
MaxL == 2           \* the E-step reports a log-likelihood in 0..MaxL (or NaN)
MaxN2 == 1          \* most imputed samples kept in one iteration
MaxRetries == 2     \* largest split_n_merge a caller passes
MaxDraw == 3        \* largest size a caller of GMM.draw passes
MaxDepth == 3       \* recursion limit of the interpreter, scaled down
MaxFolds == 3       \* largest L a caller of cv_fit passes
MaxRng == 1         \* the states of the random generator are 0..MaxRng
SNMData == 4        \* samples in the data of a followed call of _findSNMComponents
MaxChunkK == 9      \* largest K of a mixture whose logL is followed
MaxCpu == 4         \* largest multiprocessing.cpu_count()

(* grids of the numeric kernels: a draw <<a, m, v>> stands for the        *)
(* responsibilities of one supported component, A_k = a, M_k = a m,       *)
(* C_k = a v                                                               *)
GridEM == {1} \X {0, 1, 2} \X {16}
GridCoarse == {1} \X {1} \X {16}
InitMeans == {0, 10}    \* caller-supplied initial means (10: far from the data)
\* caller-supplied <<mean, covar>> of the components of a larger mixture: on
\* the data with a wide or a narrow covariance, or far from the data
InitOdd == {<<0, 16>>, <<0, 1>>}
InitEven == {<<0, 16>>, <<2, 1>>}
InitLast == {<<0, 16>>, <<10, 16>>}

(* ----------------------------- fractions ------------------------------- *)
NaN == <<0, 0>>
Unset == <<1, 0>>       \* a local that has not been assigned yet

Abs(x) == IF x < 0 THEN -x ELSE x

RECURSIVE GCD(_, _)
GCD(a, b) == IF b = 0 THEN a ELSE GCD(b, a % b)

Frac(n, d) ==
    IF d = 0 THEN NaN
    ELSE LET g == GCD(Abs(n), Abs(d))
             s == IF d < 0 THEN -1 ELSE 1
         IN  <<(s * n) \div g, (s * d) \div g>>

F(n) == <<n, 1>>
IsNaN(a) == a[2] = 0
FAdd(a, b) == IF IsNaN(a) \/ IsNaN(b) THEN NaN
              ELSE IF a[2] = 1 /\ b[2] = 1 THEN <<a[1] + b[1], 1>>
              ELSE Frac(a[1] * b[2] + b[1] * a[2], a[2] * b[2])
FSub(a, b) == IF IsNaN(a) \/ IsNaN(b) THEN NaN
              ELSE IF a[2] = 1 /\ b[2] = 1 THEN <<a[1] - b[1], 1>>
              ELSE Frac(a[1] * b[2] - b[1] * a[2], a[2] * b[2])
FMul(a, b) == IF IsNaN(a) \/ IsNaN(b) THEN NaN
              ELSE IF a[2] = 1 /\ b[2] = 1 THEN <<a[1] * b[1], 1>>
              ELSE Frac(a[1] * b[1], a[2] * b[2])
\* numpy division: 0/0 is NaN.  A non-zero numerator over 0 does not arise:
\* M_k and C_k are 0 whenever A_k is, and N is 0 only when every A_k is.
FDiv(a, b) == IF IsNaN(a) \/ IsNaN(b) \/ b[1] = 0 THEN NaN
              ELSE Frac(a[1] * b[2], a[2] * b[1])
\* IEEE comparisons: every comparison with NaN is false
FLt(a, b) == ~IsNaN(a) /\ ~IsNaN(b) /\ a[1] * b[2] < b[1] * a[2]
FGe(a, b) == ~IsNaN(a) /\ ~IsNaN(b) /\ a[1] * b[2] >= b[1] * a[2]
FGt(a, b) == FLt(b, a)
FMin(a, b) == IF FLt(b, a) THEN b ELSE a

\* square root, rounded down to a multiple of 1/d: exact on the squares
ISqrt(n) == CHOOSE r \in 0..n : r * r <= n /\ n < (r + 1) * (r + 1)
FSqrt(a) == IF IsNaN(a) \/ a[1] < 0 THEN NaN ELSE Frac(ISqrt(a[1] * a[2]), a[2])

RECURSIVE FSum(_, _)
FSum(f, S) == IF S = {} THEN F(0)
              ELSE LET k == CHOOSE x \in S : TRUE
                   IN  FAdd(f[k], FSum(f, S \ {k}))

(* --------------------------- program constants ------------------------- *)
IterFloor == 100        \* maxiter = max(100, gmm.K)
MinSNM == 3             \* split-and-merge needs gmm.K >= 3

(* ------------------------------- state --------------------------------- *)
VARIABLES
    K,          \* gmm.K, number of components
    cutoff,     \* fit argument: truncation in sigma, or None
    sel,        \* sel_callback: "none", "points" (takes the points only),
                \* "points_gmm" (also takes the gmm keyword)
    w,          \* fit argument: minimum covariance term
    tol,        \* fit argument: tolerance
    altered,    \* _EM argument: the components of a partial run, or NoneU
    gmm,        \* the mixture: [amp, mean, covar], each over 1..K
    gmm_,       \* _EM's backup of the mixture
    U,          \* neighborhoods: U[k] a set of sample indices, or NoneU
    log_L,      \* _EM's log_L  (previous iteration)
    log_L_,     \* _EM's log_L_ (this iteration)
    it,         \* _EM's iteration counter
    N,          \* observed samples in some neighborhood
    N2,         \* imputed samples in some neighborhood
    st,         \* state of the driver: "Iterating", "Converged", "Reverted",
                \* "Capped" (iteration cap), "Raised", "Stepped"
    iter_gmm,   \* history: gmm holds the iter_gmm-th iterate of this run
    iter_L,     \* history: log_L is the log-likelihood of the iter_L-th iterate
    A,          \* _EMstep's A: effective counts from the observed samples
    A2,         \* _EMstep's A2: effective counts from the imputed samples
    covarSet,   \* fit argument: covar is not None
    covarCb,    \* fit argument: covar_callback is not None
    split_n_merge,  \* fit argument and local: split-and-merge rounds left
    fit_gmm_,   \* fit's gmm_: backup of the mixture before a round
    U_,         \* fit's U_: backup of the neighborhoods before a round
    fit_log_L,  \* fit's log_L
    fit_N,      \* fit's N + N2, as the first _EM returned them
    pc,         \* position in fit: "fit", "EM0", "Loop", "EMP", "EMF",
                \* "Returned", or the exception that reached the caller
    ran_estep,  \* history: an E-step has been executed in this call
    budget,     \* history: split_n_merge as the caller passed it
    rounds,     \* history: split-and-merge rounds begun in this call
    snm,        \* history: what _findSNMComponents last returned
    U2,         \* _EMstep's U2 after the E-step on the imputed samples
    len2,       \* _EMstep's len(data2): imputed samples kept by the selection
    bg_on,      \* fit argument: background is not None
    bg_amp,     \* background.amp
    bg_adjust,  \* background.adjust_amp
    bg_amp_max, \* background.amp_max
    d_size,     \* GMM.draw: the size the caller asked for
    d_invert,   \* GMM.draw: invert_callback
    d_stack,    \* GMM.draw: the frames of the recursion, outermost first:
                \* [size, samples, at], at "call" (entered) or "wait" (in the
                \* recursive call).  A point is TRUE when sel_callback accepts it
    d_ret,      \* GMM.draw: the samples the innermost finished call returned
    cv_L,       \* cv_fit argument: L
    cv_initcb,  \* cv_fit argument: kwargs holds an init_callback
    cv_i,       \* cv_fit: the loop variable i
    gmm0,       \* cv_fit: the copy of the mixture taken at entry
    bg_amp0,    \* cv_fit: bg_amp0
    rng,        \* the state of the random generator rng
    rng_state,  \* cv_fit: rng_state
    lcv,        \* cv_fit: lcv, Unset where np.empty left it unwritten
    cv_entry,   \* history: mixture, background amplitude and generator state
                \* at the entry of cv_fit
    par_at,     \* position in the E-step and M-step followed through their
                \* workers: "idle", "Estep" and "Mstep" (entered), "Emap" and
                \* "Mmap" (in parmap.starmap and the loop over its results),
                \* "done"
    par_todo,   \* the components whose task no worker has finished yet
    par_res,    \* the result list of parmap.starmap, Empty where no result
                \* has arrived; a result carries the component it is of
    par_order,  \* history: the components in the order their tasks finished
    par_k,      \* the loop counter k of the calling thread
    log_p,      \* log_p[k]: whose log-densities it holds, on which samples
    T_inv,      \* T_inv[k]: whose inverse covariances it holds
    AMC,        \* _Mstep's A[k], M[k], C[k]: whose sums they hold
    log_S,      \* log_S[i]: the components whose density has been added
    H,          \* H: the samples flagged as in some neighborhood
    par_writes, \* history: the writes to log_S and H: who wrote, what, the
                \* tasks still running and the results present at that time
    cv_train,   \* history: the training samples of each fold of cv_fit so far
    lcv_by,     \* history: for each sample, the folds that wrote its lcv entry
    cpu_count,  \* multiprocessing.cpu_count()
    ch_at,      \* position in GMM.logL: "idle", "chunks" (in _get_chunks),
                \* "pool" (the chunks are with the pool), "done"
    ch_n,       \* _get_chunks: n
    ch_i,       \* _get_chunks: the loop variable i
    chunks,     \* _get_chunks: chunks, pairs <<n, n_>> for [n, n_)
    ch_todo,    \* logL: the positions in chunks whose result is outstanding
    ch_sums     \* history: how often each component (0-based) was summed

fitvars == <<covarSet, covarCb, split_n_merge, fit_gmm_, U_, fit_log_L, fit_N>>

histvars == <<budget, rounds, snm, U2, len2>>

bgvars == <<bg_on, bg_amp, bg_adjust, bg_amp_max>>

drawvars == <<d_size, d_invert, d_stack, d_ret>>

cvvars == <<cv_L, cv_initcb, cv_i, gmm0, bg_amp0, rng, rng_state, lcv, cv_entry,
            cv_train, lcv_by>>

parvars == <<par_at, par_todo, par_res, par_order, par_k, log_p, T_inv, AMC,
             log_S, H, par_writes>>

chvars == <<cpu_count, ch_at, ch_n, ch_i, chunks, ch_todo, ch_sums>>

auxvars == <<histvars, bgvars, drawvars, cvvars, parvars, chvars>>

emvars == <<K, cutoff, sel, w, tol, altered, gmm, gmm_, U, log_L, log_L_,
            it, N, N2, st, iter_gmm, iter_L, A, A2, fitvars, pc, ran_estep,
            auxvars>>

None == <<0, -1>>       \* Python None where a number is expected
NoneU == {0}            \* Python None where a neighborhood is expected
Comps == 1..K
Samples == 1..NData
XPos(i) == 2 * (i - 1)  \* data[i]: the samples lie at 0, 2, 4, ...
X(i) == F(XPos(i))

LVals == {F(l) : l \in 0..MaxL}
Zero == <<0, 0, 0>>

(* ------------------------------ kernels -------------------------------- *)
InitCovar == F(16)      \* caller-supplied initial covariance

\* chi2_cutoff for D = 1: chi2.ppf(1 - 2(1 - Phi(c)), 1) = c^2
chi2_cutoff(c) == FMul(c, c)

\* dx . inv(T_k) . dx for D = 1
Chi2(x, m, v) == FDiv(FMul(FSub(x, m), FSub(x, m)), v)

Members(U_k) == IF U_k = NoneU THEN Samples ELSE U_k

\* an E-step that tests every sample against the cutoff anew
EsumAll(k, U_k, g, cutoff_nd) ==
    IF cutoff_nd = None THEN U_k
    ELSE {i \in Samples : FLt(Chi2(X(i), g.mean[k], g.covar[k]), cutoff_nd)}

\* _Esum: the neighborhood it returns for component k
Esum(k, U_k, g, cutoff_nd) ==
    IF cutoff_nd = None THEN U_k
    ELSE {i \in Members(U_k) : FLt(Chi2(X(i), g.mean[k], g.covar[k]), cutoff_nd)}

\* log_p[k] holds a NaN: some sample of k's neighborhood has no number as density
BadLogp(k, U_k, g) ==
    /\ Members(U_k) # {}
    /\ IsNaN(g.amp[k]) \/ IsNaN(g.mean[k]) \/ IsNaN(g.covar[k])

\* _Estep without background: the neighborhoods, H (samples in some
\* neighborhood) and P (samples whose log_S is NaN).  Operator arguments are
\* evaluated where they are used, so a value used more than once is bound
\* by a singleton set.
EstepOf(g, newU) ==
    [U |-> newU,
     H |-> UNION {Members(newU[k]) : k \in Comps},
     P |-> UNION {Members(newU[k]) : k \in {j \in Comps : BadLogp(j, newU[j], g)}}]

Estep(g, UU, cutoff_nd) ==
    CHOOSE e \in {EstepOf(g, newU) :
                    newU \in {[k \in Comps |-> Esum(k, UU[k], g, cutoff_nd)]}} : TRUE

\* the values log_S[H].mean() can take
EstepLogL(e) == IF e.H = {} \/ e.P # {} THEN {NaN} ELSE LVals

\* _Msums over all components: A_k, M_k, C_k.  d[k] = <<a, m, v>> is the draw
\* of the responsibilities of k: effective count a, M_k = a m, C_k = a v
Msums(e, d) ==
    [k \in Comps |->
        IF Members(e.U[k]) = {} THEN [A |-> F(0), M |-> F(0), C |-> F(0)]
        ELSE IF Members(e.U[k]) \cap e.P # {} THEN [A |-> NaN, M |-> NaN, C |-> NaN]
        ELSE [A |-> F(d[k][1]), M |-> F(d[k][1] * d[k][2]), C |-> F(d[k][1] * d[k][3])]]

\* the grid of the driver: it thins for the larger mixtures, so that the
\* mixtures a run can reach stay few
Grid == IF K >= 3 THEN GridCoarse ELSE GridEM

\* the draws for one component: with a single sample in the neighborhood and
\* no per-sample noise, M_k / A_k is that sample
DrawsOf(U_k, grid) ==
    IF Cardinality(Members(U_k)) = 1 /\ ~covarSet
    THEN {<<g[1], XPos(i), g[3]>> : g \in grid, i \in Members(U_k)}
    ELSE grid

\* every draw some component of an E-step can take
DrawPool(e, grid) ==
    {t \in {g[1] : g \in grid} \X (0..XPos(NData)) \X {g[3] : g \in grid} :
        t \in grid \/ \E k \in Comps : t \in DrawsOf(e.U[k], grid)}

\* the draws that fit an E-step: one per supported component
Draws(e, grid) ==
    {d \in [Comps -> DrawPool(e, grid) \cup {Zero}] :
        \A k \in Comps :
            IF Members(e.U[k]) = {} \/ Members(e.U[k]) \cap e.P # {}
            THEN d[k] = Zero
            ELSE d[k] \in DrawsOf(e.U[k], grid)}

NoStats == [k \in Comps |-> [A |-> F(0), M |-> F(0), C |-> F(0)]]

\* gmm.amp /= gmm.amp.sum()
Renormalize(amp) ==
    CHOOSE r \in {[k \in Comps |-> FDiv(amp[k], total)] :
                    total \in {FSum(amp, Comps)}} : TRUE

\* an amplitude share that leaves the unaltered components out of account
RestAmpAll(g, alt) == F(1)

\* 1 - (gmm.amp[unaltered]).sum()
RestAmp(g, alt) == FSub(F(1), FSum(g.amp, Comps \ alt))

\* _update, given the combined sums S[k] = [A + A2, M + M2, C + C2] and N + N2
UpdateSums(g, S, ntot, ww, alt) ==
    [amp   |-> IF alt = NoneU
               THEN Renormalize([k \in Comps |-> FDiv(S[k].A, F(ntot))])
               ELSE CHOOSE r \in
                      {Renormalize([k \in Comps |->
                                      IF k \in alt THEN FMul(FDiv(S[k].A, share), rest)
                                      ELSE g.amp[k]]) :
                         share \in {FSum([k \in Comps |-> S[k].A], alt)},
                         rest \in {RestAmp(g, alt)}} : TRUE,
     mean  |-> [k \in Comps |->
                  IF alt = NoneU \/ k \in alt THEN FDiv(S[k].M, S[k].A)
                  ELSE g.mean[k]],
     covar |-> [k \in Comps |->
                  IF ~(alt = NoneU \/ k \in alt) THEN g.covar[k]
                  ELSE IF ww > 0
                  THEN FDiv(FAdd(S[k].C, FMul(F(ww * ww), FAdd(Frac(ntot, K), F(1)))),
                            FAdd(S[k].A, F(1)))
                  ELSE FDiv(S[k].C, S[k].A)]]

\* _update: s the sums of the observed samples, s2 those of the imputed ones
Update(g, s, n, s2, n2, ww, alt) ==
    CHOOSE r \in {UpdateSums(g, S, n + n2, ww, alt) :
                    S \in {[k \in Comps |-> [A |-> FAdd(s[k].A, s2[k].A),
                                             M |-> FAdd(s[k].M, s2[k].M),
                                             C |-> FAdd(s[k].C, s2[k].C)]]}} : TRUE

ImpGrid == {<<1, 1, 16>>}    \* responsibilities of the imputed samples

\* _I followed by the E- and M-step on the imputed samples (_EMstep): the
\* imputed count N2 = H2.sum() and the sums A2, M2, C2.  len(data2) is at
\* most size; U2 is None for every component, and the cutoff is applied.
\* len is len(data2) and U2 the neighborhoods as that E-step leaves them:
\* None without cutoff; with it the imputed samples within the cutoff of
\* the component, here all of them or none.
Impute(g, size, cutoff_nd) ==
    LET lens   == 1..(IF size < MaxN2 THEN size ELSE MaxN2)
        finite == {k \in Comps : ~IsNaN(g.mean[k]) /\ ~IsNaN(g.covar[k])}
        sups   == IF cutoff_nd = None THEN {Comps} ELSE SUBSET finite
        e2(sup) == [U |-> [k \in Comps |-> IF k \in sup THEN NoneU ELSE {}],
                    H |-> IF sup = {} THEN {} ELSE Samples,
                    P |-> IF \E k \in sup : BadLogp(k, NoneU, g) THEN Samples ELSE {}]
        u2(sup, n) == [k \in Comps |-> IF cutoff_nd = None THEN NoneU
                                       ELSE IF k \in sup THEN 1..n ELSE {}]
    IN  {[N2 |-> 0, s2 |-> NoStats, len |-> 0, U2 |-> [k \in Comps |-> NoneU]]}
        \cup UNION {UNION {
               IF sup = {} THEN {[N2 |-> 0, s2 |-> NoStats, len |-> n,
                                  U2 |-> u2(sup, n)]}
               ELSE {[N2 |-> m, s2 |-> Msums(e2(sup), d), len |-> n,
                      U2 |-> u2(sup, n)] :
                       m \in (IF cutoff_nd = None THEN {n} ELSE 1..n),
                       d \in Draws(e2(sup), ImpGrid)}
               : sup \in sups} : n \in lens}

\* a displacement test that also counts a shift of exactly the threshold
MovedGe(g, g_, shift_cutoff) ==
    {k \in Comps : FGe(Chi2(g.mean[k], g_.mean[k], g_.covar[k]), shift_cutoff)}

\* shift2 > shift_cutoff, against the backup's mean and covariance
Moved(g, g_, shift_cutoff) ==
    {k \in Comps : FGt(Chi2(g.mean[k], g_.mean[k], g_.covar[k]), shift_cutoff)}

maxiterOneMore == IF IterFloor > K THEN IterFloor + 1 ELSE K + 1

maxiter == IF IterFloor > K THEN IterFloor ELSE K

CutoffNd == IF cutoff = None THEN None ELSE chi2_cutoff(cutoff)
ShiftCutoff == IF cutoff = None THEN chi2_cutoff(Frac(1, 4))
               ELSE chi2_cutoff(FMin(Frac(1, 4), FDiv(cutoff, F(2))))

\* the convergence tests of _EM on the new log-likelihood l
StableNoMoved(l, mv) ==
    it > 0 /\ FLt(l, FAdd(log_L, tol)) /\ ~FLt(l, FSub(log_L, tol))

Regressed(l) == it > 0 /\ FLt(l, FAdd(log_L, tol)) /\ FLt(l, FSub(log_L, tol))
Stable(l, mv) == it > 0 /\ FLt(l, FAdd(log_L, tol)) /\ ~FLt(l, FSub(log_L, tol))
                 /\ mv = {}

\* gmm after "revert to previous model": the three slice assignments from gmm_
RevertKeepMean(g, g_) == [amp |-> g_.amp, mean |-> g.mean, covar |-> g_.covar]

Revert(g, g_) == [amp |-> g_.amp, mean |-> g_.mean, covar |-> g_.covar]

(* ------------------------------ the driver ----------------------------- *)
\* one pass of the loop body of _EM: _EMstep (E-step, M-step, imputation,
\* _update), the displacement, the convergence tests, the backup.  The
\* E-step evaluates the mixture it is given, the iterate before this pass's
\* update.
EMiter ==
    /\ st = "Iterating"
    /\ sel # "points"
    /\ \E e \in {Estep(gmm, U, CutoffNd)} :
       \E l \in EstepLogL(e), d \in Draws(e, Grid) :
       \E imp \in (IF sel = "none" THEN {[N2 |-> N2, s2 |-> NoStats]}
                   ELSE Impute(gmm, Cardinality(e.H) + N2, CutoffNd)) :
       \E s \in {Msums(e, d)} :
       \E g1 \in {Update(gmm, s, Cardinality(e.H), imp.s2, imp.N2, w, altered)} :
       \E mv \in {Moved(g1, gmm_, ShiftCutoff)} :
         /\ log_L_' = l
         /\ N' = Cardinality(e.H)
         /\ N2' = imp.N2
         /\ IF Regressed(l)
            THEN /\ gmm' = Revert(g1, gmm_)
                 /\ st' = "Reverted"
                 /\ U' = e.U
                 /\ UNCHANGED <<gmm_, log_L, it, iter_gmm, iter_L>>
            ELSE IF Stable(l, mv)
            THEN /\ gmm' = g1
                 /\ log_L' = l
                 /\ st' = "Converged"
                 /\ U' = e.U
                 /\ iter_L' = iter_gmm
                 /\ iter_gmm' = iter_gmm + 1
                 /\ UNCHANGED <<gmm_, it>>
            ELSE /\ gmm' = g1
                 /\ U' = [k \in Comps |->
                            IF cutoff # None /\ k \in mv THEN NoneU ELSE e.U[k]]
                 /\ log_L' = l
                 /\ gmm_' = g1
                 /\ it' = it + 1
                 /\ iter_L' = iter_gmm
                 /\ iter_gmm' = iter_gmm + 1
                 /\ st' = IF it + 1 < maxiter THEN "Iterating" ELSE "Capped"
    /\ ran_estep' = TRUE
    /\ UNCHANGED <<auxvars, K, cutoff, sel, w, tol, altered, A, A2, fitvars, pc>>

\* sel_callback(data2, gmm=gmm) in _I: a callback that takes the points only
\* raises TypeError, after the E-step and the M-step of the first iteration
EMraise ==
    /\ st = "Iterating"
    /\ sel = "points"
    /\ LET e == Estep(gmm, U, CutoffNd)
       IN  /\ U' = e.U
           /\ N' = Cardinality(e.H)
    /\ st' = "Raised"
    /\ pc' = "TypeError"
    /\ ran_estep' = TRUE
    /\ UNCHANGED <<auxvars, K, cutoff, sel, w, tol, altered, gmm, gmm_, log_L, log_L_,
                   it, N2, iter_gmm, iter_L, A, A2, fitvars>>

UniformAmp == [k \in Comps |-> Frac(1, K)]

\* no call of fit is under way: its history is empty
HistIdle ==
    /\ budget = 0
    /\ rounds = 0
    /\ snm = <<>>
    /\ U2 = <<>>
    /\ len2 = 0

\* background = None
BgIdle ==
    /\ bg_on = FALSE
    /\ bg_amp = None
    /\ bg_adjust = FALSE
    /\ bg_amp_max = None

\* no call of GMM.draw is under way
DrawIdle ==
    /\ d_size = 0
    /\ d_invert = FALSE
    /\ d_stack = <<>>
    /\ d_ret = <<>>

\* no call of cv_fit is under way
CvIdle ==
    /\ cv_L = 0
    /\ cv_initcb = FALSE
    /\ cv_i = 0
    /\ gmm0 = <<>>
    /\ bg_amp0 = None
    /\ rng = 0
    /\ rng_state = 0
    /\ lcv = <<>>
    /\ cv_entry = <<>>
    /\ cv_train = <<>>
    /\ lcv_by = <<>>

\* no E-step or M-step is followed through its workers
ParIdle ==
    /\ par_at = "idle"
    /\ par_todo = {}
    /\ par_res = <<>>
    /\ par_order = <<>>
    /\ par_k = 0
    /\ log_p = <<>>
    /\ T_inv = <<>>
    /\ AMC = <<>>
    /\ log_S = <<>>
    /\ H = {}
    /\ par_writes = {}

\* no call of GMM.logL is under way
ChIdle ==
    /\ cpu_count = 0
    /\ ch_at = "idle"
    /\ ch_n = 0
    /\ ch_i = 0
    /\ chunks = <<>>
    /\ ch_todo = {}
    /\ ch_sums = <<>>

AuxIdle == HistIdle /\ BgIdle /\ DrawIdle /\ CvIdle /\ ParIdle /\ ChIdle

\* entry of _EM as fit first calls it: the caller's mixture, the backup of
\* it, every neighborhood None.  Imputation is followed through the loop for
\* a single component, where the combined sums stay on a small grid.
InitEM ==
    /\ K \in {1, 2}
    /\ cutoff \in {None, F(2)}
    /\ sel \in {"none", "points", "points_gmm"}
    /\ sel = "points_gmm" => K = 1
    /\ w = 0
    /\ tol = F(1)
    /\ altered = NoneU
    /\ \E m \in [Comps -> InitMeans] :
         gmm = [amp |-> UniformAmp, mean |-> [k \in Comps |-> F(m[k])],
                covar |-> [k \in Comps |-> InitCovar]]
    /\ gmm_ = gmm
    /\ U = [k \in Comps |-> NoneU]
    /\ log_L = Unset
    /\ log_L_ = Unset
    /\ it = 0
    /\ N = 0
    /\ N2 = 0
    /\ st = "Iterating"
    /\ iter_gmm = 0
    /\ iter_L = -1
    /\ A = <<>>
    /\ A2 = <<>>
    /\ covarSet = FALSE
    /\ covarCb = FALSE
    /\ split_n_merge = 0
    /\ fit_gmm_ = <<>>
    /\ U_ = <<>>
    /\ fit_log_L = Unset
    /\ fit_N = 0
    /\ pc = "EM0"
    /\ ran_estep = FALSE
    /\ AuxIdle

NextEM == EMiter \/ EMraise

Spec == InitEM /\ [][NextEM]_emvars

(* ======================= properties of the _EM loop ==================== *)
WithinTol(l, prev) == FLt(l, FAdd(prev, tol)) /\ FGe(l, FSub(prev, tol))

\* C1: an iteration after the first whose log-likelihood falls more than tol
\* below the previous one ends the loop at that iteration with amplitudes,
\* means and covariances equal to the backup taken before the iteration;
\* the update of that iteration is discarded.
C1_RegressionRestoresBackup ==
    [][(st = "Iterating" /\ sel # "points" /\ it > 0
          /\ FLt(log_L_', FSub(log_L, tol)))
       => (st' = "Reverted" /\ it' = it /\ gmm' = gmm_ /\ gmm_' = gmm_)]_emvars

C1_Witness ==
    /\ st = "Reverted"
    /\ it > 1
    /\ FLt(log_L_, FSub(log_L, tol))
    /\ gmm = gmm_

\* C2: after the loop ended on a regression, the log-likelihood it returns
\* (log_L) is the log-likelihood of the iterate the mixture was restored to.
C2_ReturnedLogLOfRestoredIterate ==
    st = "Reverted" => iter_L = iter_gmm

\* C3: the loop declares convergence exactly when the iteration is not the
\* first, prev - tol <= new < prev + tol, and no component's mean moved
\* beyond the displacement threshold; when the likelihood test passes but a
\* component moved, the loop goes on to the next iteration.
C3_ConvergedIffStableAndUnmoved ==
    [][(st = "Iterating" /\ sel # "points")
       => /\ (st' = "Converged")
               <=> (it > 0 /\ WithinTol(log_L_', log_L)
                      /\ Moved(gmm', gmm_, ShiftCutoff) = {})
          /\ (it > 0 /\ WithinTol(log_L_', log_L)
                /\ Moved(gmm', gmm_, ShiftCutoff) # {})
               => (st' \in {"Iterating", "Capped"} /\ it' = it + 1)]_emvars

C3_Witness ==
    /\ st = "Converged"
    /\ it > 1
    /\ gmm # gmm_
    /\ Moved(gmm, gmm_, ShiftCutoff) = {}
    /\ log_L = log_L_

\* C4: the loop runs at most max(100, K) iterations; when it reaches that
\* count it ends normally, returning the last log-likelihood computed, with
\* the mixture as the last update left it.
C4_IterationCap ==
    LET cap == IF K > 100 THEN K ELSE 100
    IN  /\ st \in {"Iterating", "Converged", "Reverted"} => it < cap
        /\ it <= cap
        /\ st = "Capped" => (it = cap /\ log_L = log_L_ /\ log_L # Unset
                               /\ iter_gmm = cap /\ iter_L = cap - 1)

C4_Witness == st = "Capped" /\ it = 100 /\ ~IsNaN(log_L)

\* C17: with a cutoff, after every iteration that neither reverts nor
\* converges, the neighborhood of each component whose new mean lies more
\* than the displacement threshold from the backup's mean, in the backup's
\* covariance, is None; the neighborhood of every other component is the one
\* the E-step of that iteration computed.
C17_MovedNeighborhoodsReset ==
    [][(st = "Iterating" /\ cutoff # None /\ st' \in {"Iterating", "Capped"})
       => \A k \in Comps :
            IF FGt(Chi2(gmm'.mean[k], gmm_.mean[k], gmm_.covar[k]), ShiftCutoff)
            THEN U'[k] = NoneU
            ELSE U'[k] = Esum(k, U[k], gmm, CutoffNd)]_emvars

\* after an iteration with a cutoff the loop goes on: one component has moved
\* and lost its neighborhood, the other has kept the one of the E-step
C17_Witness ==
    /\ K = 2 /\ cutoff # None /\ st = "Iterating" /\ it > 1
    /\ U[1] = NoneU
    /\ U[2] # NoneU

(* ===================== one call of _EMstep, in detail ================== *)
\* responsibilities of the observed samples in a single step
GridStep == {1, 2} \X {1} \X {16}

\* the sums an imputation reports per component (A2 of _EMstep)
CountsOf(s) == [k \in Comps |-> s[k].A]

\* _EMstep: _Estep and _Mstep on the observed samples, the imputation with
\* its own _Estep and _Mstep when a selection callback is given, then
\* _update, in a full pass (altered None) or a partial one.
EMstep ==
    /\ st = "Iterating"
    /\ \E e \in {Estep(gmm, U, CutoffNd)} :
       \E l \in EstepLogL(e), d \in Draws(e, GridStep) :
       \E imp \in (IF sel = "none"
                   THEN {[N2 |-> N2, s2 |-> NoStats, len |-> 0, U2 |-> <<>>]}
                   ELSE Impute(gmm, Cardinality(e.H) + N2, CutoffNd)) :
       \E s \in {Msums(e, d)} :
         /\ gmm' = Update(gmm, s, Cardinality(e.H), imp.s2, imp.N2, w, altered)
         /\ U2' = imp.U2
         /\ len2' = imp.len
         /\ U' = e.U
         /\ log_L_' = l
         /\ N' = Cardinality(e.H)
         /\ N2' = imp.N2
         /\ A' = CountsOf(s)
         /\ A2' = CountsOf(imp.s2)
    /\ st' = "Stepped"
    /\ ran_estep' = TRUE
    /\ UNCHANGED <<chvars, parvars, cvvars, drawvars, bgvars, budget, rounds, snm, K, cutoff, sel, w, tol, altered, gmm_,
                   log_L, it, iter_gmm, iter_L, fitvars, pc>>

\* amplitudes a caller or an earlier iteration can have left: they sum to 1
StepAmps == {UniformAmp,
             [k \in Comps |-> IF k = 1 THEN Frac(2, K + 1) ELSE Frac(1, K + 1)]}

\* entry of _EMstep from _EM's loop: a valid mixture and its backup; the
\* neighborhoods None (first iteration, or no cutoff) or index sets an
\* earlier E-step left; a full pass on two components, or the partial pass
\* of a split-and-merge round on components 1, 2, 3 of four.
InitStep ==
    /\ K \in {2, 4}
    /\ cutoff \in {None, F(2)}
    /\ sel \in {"none", "points_gmm"}
    /\ w \in {0, 1}
    /\ tol = F(1)
    /\ altered = IF K = 2 THEN NoneU ELSE {1, 2, 3}
    /\ \E a \in (IF K = 2 THEN StepAmps ELSE {UniformAmp}),
          m \in [Comps -> InitMeans] :
         /\ K = 4 => m[4] = 0
         /\ gmm = [amp |-> a, mean |-> [k \in Comps |-> F(m[k])],
                   covar |-> [k \in Comps |-> InitCovar]]
    /\ gmm_ = gmm
    /\ U \in {[k \in Comps |-> NoneU]}
               \cup (IF cutoff = None THEN {} ELSE {[k \in Comps |-> {1}]})
    /\ log_L \in LVals
    /\ log_L_ = log_L
    /\ it = 1
    /\ N = NData
    /\ N2 \in (IF sel = "none" THEN {0} ELSE {0, MaxN2})
    /\ st = "Iterating"
    /\ iter_gmm = 1
    /\ iter_L = 0
    /\ A = <<>>
    /\ A2 = <<>>
    /\ covarSet = FALSE
    /\ covarCb = FALSE
    /\ split_n_merge = 0
    /\ fit_gmm_ = <<>>
    /\ U_ = <<>>
    /\ fit_log_L = Unset
    /\ fit_N = 0
    /\ pc = "EM0"
    /\ ran_estep = TRUE
    /\ AuxIdle

NextStep == EMstep

SpecStep == InitStep /\ [][NextStep]_emvars

\* C5: after every call of _update, in a full pass and in a partial one,
\* all K amplitudes are non-negative and sum to 1.
C5_AmplitudesNormalized ==
    st = "Stepped" =>
        /\ \A k \in Comps : FGe(gmm.amp[k], F(0))
        /\ FSum(gmm.amp, Comps) = F(1)

\* C6: a component to which neither an observed nor an imputed sample is
\* assigned has zero sufficient statistics, and the update leaves its mean
\* and covariance as they were before the iteration.
C6_EmptyNeighborhoodLeavesComponent ==
    st = "Stepped" =>
        \A k \in Comps :
            (Members(U[k]) = {} /\ A2[k] = F(0))
                => /\ A[k] = F(0)
                   /\ gmm.mean[k] = gmm_.mean[k]
                   /\ gmm.covar[k] = gmm_.covar[k]

(* ================================= fit ================================= *)
\* "test if callbacks are consistent"
InconsistentNoSel == covarSet /\ ~covarCb

Inconsistent == covarSet /\ sel # "none" /\ ~covarCb

\* the test of fit's split-and-merge loop
SNMWantedAnyK == split_n_merge > 0

SNMWanted == split_n_merge > 0 /\ K >= MinSNM

Done == {"Converged", "Reverted", "Capped"}

\* a call of _EM: its locals at the loop head, the backup of the mixture g
EnterEM(g, alt) ==
    /\ altered' = alt
    /\ gmm_' = g
    /\ log_L' = Unset
    /\ log_L_' = Unset
    /\ it' = 0
    /\ N' = 0
    /\ N2' = 0
    /\ iter_gmm' = 0
    /\ iter_L' = -1
    /\ st' = "Iterating"

\* np.argsort: a NaN sorts after every number
SortLe(a, b) == IsNaN(b) \/ (~IsNaN(a) /\ ~FLt(b, a))

\* the orders of the K components
Perms == {p \in [Comps -> Comps] : \A i, j \in Comps : i # j => p[i] # p[j]}

\* np.argsort(f): the components in ascending order of f; equal values come
\* in either order
Argsort(f) == {p \in Perms : \A i \in 1..(K - 1) : SortLe(f[p[i]], f[p[i + 1]])}

\* JS = EV[:,0] * gmm.amp; for D = 1 the singular value is the covariance
JS(g) == [k \in Comps |-> FMul(g.covar[k], g.amp[k])]

\* merge_jk: JM[k,j], k < j, is positive exactly for the pairs whose
\* neighborhoods intersect, and any of them can hold the maximum; with all
\* neighborhoods disjoint JM is blank and np.argsort(gmm.amp)[:2] is taken
MergePairs(UU) == {q \in Comps \X Comps : q[1] < q[2] /\ UU[q[1]] \cap UU[q[2]] # {}}

MergeJk(g, UU) ==
    IF MergePairs(UU) # {} THEN MergePairs(UU)
    ELSE {<<p[1], p[2]>> : p \in Argsort(g.amp)}

\* split_l3 = np.argsort(JS)[-3:][::-1]
SplitL3(g) == {<<p[K], p[K - 1], p[K - 2]>> : p \in Argsort(JS(g))}

\* a check of the first two candidates only
AlteredSplitTop2(m, l3) == IF l3[1] \in {m[1], m[2]} THEN l3[2] ELSE l3[1]

\* "check that the three indices are unique": altered[2]
AlteredSplit(m, l3) ==
    IF l3[1] \in {m[1], m[2]}
    THEN IF l3[2] \notin {m[1], m[2]} THEN l3[2] ELSE l3[3]
    ELSE l3[1]

\* _findSNMComponents: the pair to merge (a0, a1), the component to split
\* (a2) and cleanup
FindSNM(g, UU) ==
    {[a0 |-> m[1], a1 |-> m[2], a2 |-> AlteredSplit(m, l3),
      cleanup |-> MergePairs(UU) = {}] : m \in MergeJk(g, UU), l3 \in SplitL3(g)}

\* a split that hands the parent's amplitude to each child
SplitAmpWhole(a) == a

\* gmm.amp[altered[2]] / 2
SplitAmp(a) == FDiv(a, F(2))

\* _update_snm: merge a0 and a1 into a0, split a2 into a1 and a2; n is N
\* and sgn the sign of the singular vector rotation[0]
UpdateSNM(g, UU, r, n, sgn) ==
    LET Aw(k) == FMul(g.amp[k], F(n))
        wsum  == FAdd(Aw(r.a0), Aw(r.a1))
        dl    == FMul(F(sgn), FDiv(FSqrt(g.covar[r.a2]), F(4)))
    IN  [gmm |->
           [amp   |-> [k \in Comps |->
                         IF k = r.a0 THEN FAdd(g.amp[r.a0], g.amp[r.a1])
                         ELSE IF k \in {r.a1, r.a2} THEN SplitAmp(g.amp[r.a2])
                         ELSE g.amp[k]],
            mean  |-> [k \in Comps |->
                         IF k = r.a0
                         THEN IF r.cleanup THEN g.mean[r.a1]
                              ELSE FDiv(FAdd(FMul(g.mean[r.a0], Aw(r.a0)),
                                             FMul(g.mean[r.a1], Aw(r.a1))), wsum)
                         ELSE IF k = r.a1 THEN FSub(g.mean[r.a2], dl)
                         ELSE IF k = r.a2 THEN FAdd(g.mean[r.a2], dl)
                         ELSE g.mean[k]],
            covar |-> [k \in Comps |->
                         IF k = r.a0
                         THEN IF r.cleanup THEN g.covar[r.a1]
                              ELSE FDiv(FAdd(FMul(g.covar[r.a0], Aw(r.a0)),
                                             FMul(g.covar[r.a1], Aw(r.a1))), wsum)
                         ELSE IF k \in {r.a1, r.a2} THEN g.covar[r.a2]
                         ELSE g.covar[k]]],
         U |-> [k \in Comps |->
                  IF k = r.a0
                  THEN IF r.cleanup THEN UU[r.a1] ELSE UU[r.a0] \cup UU[r.a1]
                  ELSE IF k = r.a1 THEN UU[r.a2]
                  ELSE UU[k]]]

\* "revert to backup" of a split-and-merge round
SNMRevertKeepU(g, UU, g_, Ub) == [gmm |-> g_, U |-> UU]

SNMRevert(g, UU, g_, Ub) == [gmm |-> g_, U |-> Ub]

\* the consistency test fails: RuntimeError
FitReject ==
    /\ pc = "fit"
    /\ Inconsistent
    /\ pc' = "RuntimeError"
    /\ UNCHANGED <<auxvars, K, cutoff, sel, w, tol, altered, gmm, gmm_, U, log_L, log_L_,
                   it, N, N2, st, iter_gmm, iter_L, A, A2, fitvars, ran_estep>>

\* the buffers are set up and the first _EM is called
FitStart ==
    /\ pc = "fit"
    /\ ~Inconsistent
    /\ U' = [k \in Comps |-> NoneU]
    /\ EnterEM(gmm, NoneU)
    /\ pc' = "EM0"
    /\ UNCHANGED <<auxvars, K, cutoff, sel, w, tol, gmm, A, A2, fitvars, ran_estep>>

\* _EM has returned: its locals are gone
LeaveEM ==
    /\ altered' = NoneU
    /\ gmm_' = <<>>
    /\ log_L' = Unset
    /\ log_L_' = Unset
    /\ it' = 0
    /\ N' = 0
    /\ N2' = 0
    /\ iter_gmm' = 0
    /\ iter_L' = -1
    /\ st' = "Idle"

\* log_L, N, N2 = _EM(...)
FitAfterEM0 ==
    /\ pc = "EM0"
    /\ st \in Done
    /\ fit_log_L' = log_L
    /\ fit_N' = N + N2
    /\ LeaveEM
    /\ pc' = "Loop"
    /\ UNCHANGED <<auxvars, K, cutoff, sel, w, tol, gmm, U, A, A2, covarSet, covarCb,
                   split_n_merge, fit_gmm_, U_, ran_estep>>

\* the loop is not entered, or is left by its test: return log_L, U
FitReturn ==
    /\ pc = "Loop"
    /\ ~SNMWanted
    /\ pc' = "Returned"
    /\ UNCHANGED <<auxvars, K, cutoff, sel, w, tol, altered, gmm, gmm_, U, log_L, log_L_,
                   it, N, N2, st, iter_gmm, iter_L, A, A2, fitvars, ran_estep>>

\* the backup of a round: U[k].copy() on a neighborhood that is None
FitBackupRaise ==
    /\ pc = "Loop"
    /\ SNMWanted
    /\ \E k \in Comps : U[k] = NoneU
    /\ fit_gmm_' = gmm
    /\ rounds' = rounds + 1
    /\ pc' = "AttributeError"
    /\ UNCHANGED <<chvars, parvars, cvvars, drawvars, bgvars, budget, snm, U2, len2, K, cutoff, sel, w, tol, altered, gmm, gmm_, U, log_L, log_L_,
                   it, N, N2, st, iter_gmm, iter_L, A, A2, covarSet, covarCb,
                   split_n_merge, U_, fit_log_L, fit_N, ran_estep>>

\* _findSNMComponents: match1d on an empty neighborhood raises ValueError
FitFindRaise ==
    /\ pc = "Loop"
    /\ SNMWanted
    /\ \A k \in Comps : U[k] # NoneU
    /\ \E k \in Comps : U[k] = {}
    /\ fit_gmm_' = gmm
    /\ U_' = U
    /\ rounds' = rounds + 1
    /\ pc' = "ValueError"
    /\ UNCHANGED <<chvars, parvars, cvvars, drawvars, bgvars, budget, snm, U2, len2, K, cutoff, sel, w, tol, altered, gmm, gmm_, U, log_L, log_L_,
                   it, N, N2, st, iter_gmm, iter_L, A, A2, covarSet, covarCb,
                   split_n_merge, fit_log_L, fit_N, ran_estep>>

\* a round begins: backup, _findSNMComponents, _update_snm, and the partial
\* _EM on the altered components is called
FitRound ==
    /\ pc = "Loop"
    /\ SNMWanted
    /\ \A k \in Comps : U[k] # NoneU /\ U[k] # {}
    /\ fit_gmm_' = gmm
    /\ U_' = U
    /\ \E r \in FindSNM(gmm, U), sgn \in {-1, 1} :
       \E u \in {UpdateSNM(gmm, U, r, fit_N, sgn)} :
         /\ gmm' = u.gmm
         /\ U' = u.U
         /\ EnterEM(u.gmm, {r.a0, r.a1, r.a2})
         /\ snm' = r
    /\ rounds' = rounds + 1
    /\ pc' = "EMP"
    /\ UNCHANGED <<chvars, parvars, cvvars, drawvars, bgvars, budget, U2, len2, K, cutoff, sel, w, tol, A, A2, covarSet, covarCb,
                   split_n_merge, fit_log_L, fit_N, ran_estep>>

\* the partial run returned (its results go to log_L_, N_, N2_, which the
\* next call overwrites); the full _EM is called
FitAfterPartial ==
    /\ pc = "EMP"
    /\ st \in Done
    /\ EnterEM(gmm, NoneU)
    /\ pc' = "EMF"
    /\ UNCHANGED <<auxvars, K, cutoff, sel, w, tol, gmm, U, A, A2, fitvars, ran_estep>>

\* split_n_merge -= 1
ConsumeNone(n) == n

Consume(n) == n - 1

\* the full run returned log_L_ (held in log_L here): revert and stop, or
\* accept and count the round
FitCompare ==
    /\ pc = "EMF"
    /\ st \in Done
    /\ IF FGe(fit_log_L, log_L)
       THEN /\ \E b \in {SNMRevert(gmm, U, fit_gmm_, U_)} :
                 gmm' = b.gmm /\ U' = b.U
            /\ pc' = "Returned"
            /\ UNCHANGED <<fit_log_L, split_n_merge>>
       ELSE /\ fit_log_L' = log_L
            /\ split_n_merge' = Consume(split_n_merge)
            /\ pc' = "Loop"
            /\ UNCHANGED <<gmm, U>>
    /\ LeaveEM
    /\ UNCHANGED <<auxvars, K, cutoff, sel, w, tol, A, A2, covarSet, covarCb,
                   fit_gmm_, U_, fit_N, ran_estep>>

\* a call of fit, after init_callback: a valid mixture.  With three
\* components the arguments vary, split-and-merge being followed without
\* imputation and imputation without cutoff; with two components the call
\* is the plain request for split-and-merge, and with four, where a round
\* leaves a component unaltered, the request for one round with a cutoff.
InitFit ==
    /\ K \in {2, 3, 4}
    /\ cutoff \in {None, F(2)}
    /\ sel \in {"none", "points", "points_gmm"}
    /\ covarSet \in BOOLEAN
    /\ covarCb \in BOOLEAN
    /\ split_n_merge \in 0..MaxRetries
    /\ K < MinSNM => (sel = "none" /\ ~covarSet /\ ~covarCb
                         /\ cutoff = None /\ split_n_merge = MaxRetries)
    /\ sel = "points_gmm" => (split_n_merge = 0 /\ cutoff = None)
    /\ K > MinSNM => (sel = "none" /\ ~covarSet /\ ~covarCb
                         /\ cutoff = F(2) /\ split_n_merge = 1)
    /\ w = 0
    /\ tol = F(1)
    /\ altered = NoneU
    /\ \E c \in [Comps -> InitOdd \cup InitEven \cup InitLast] :
         /\ \A k \in Comps :
                c[k] \in (IF K < MinSNM THEN {<<0, 16>>}
                          ELSE IF k = K THEN InitLast
                          ELSE IF k % 2 = 1 THEN InitOdd ELSE InitEven)
         /\ gmm = [amp |-> UniformAmp, mean |-> [k \in Comps |-> F(c[k][1])],
                   covar |-> [k \in Comps |-> F(c[k][2])]]
    /\ gmm_ = <<>>
    /\ U = <<>>
    /\ log_L = Unset
    /\ log_L_ = Unset
    /\ it = 0
    /\ N = 0
    /\ N2 = 0
    /\ st = "Idle"
    /\ iter_gmm = 0
    /\ iter_L = -1
    /\ A = <<>>
    /\ A2 = <<>>
    /\ fit_gmm_ = <<>>
    /\ U_ = <<>>
    /\ fit_log_L = Unset
    /\ fit_N = 0
    /\ pc = "fit"
    /\ ran_estep = FALSE
    /\ budget = split_n_merge
    /\ rounds = 0
    /\ snm = <<>>
    /\ U2 = <<>>
    /\ len2 = 0
    /\ BgIdle
    /\ DrawIdle
    /\ CvIdle
    /\ ParIdle
    /\ ChIdle

NextFit ==
    \/ FitReject
    \/ FitStart
    \/ EMiter
    \/ EMraise
    \/ FitAfterEM0
    \/ FitReturn
    \/ FitBackupRaise
    \/ FitFindRaise
    \/ FitRound
    \/ FitAfterPartial
    \/ FitCompare

SpecFit == InitFit /\ [][NextFit]_emvars

Raised == {"RuntimeError", "TypeError", "AttributeError", "ValueError"}

\* C7: when the two re-runs of a split-and-merge round end with a
\* log-likelihood that is not strictly greater than the one before the
\* round, fit puts amplitudes, means and covariances back to their values
\* before the round, returns the neighborhoods and the log-likelihood of
\* before the round, and starts no further round.  The backups are the
\* values at the start of the round and are not touched during it.
C7_FailedRoundRollsBack ==
    [][/\ (pc = "Loop" /\ pc' = "EMP") => (fit_gmm_' = gmm /\ U_' = U)
       /\ (pc \in {"EMP", "EMF"} /\ pc' \in {"EMP", "EMF"})
             => (fit_gmm_' = fit_gmm_ /\ U_' = U_ /\ fit_log_L' = fit_log_L)
       /\ (pc = "EMF" /\ st \in Done /\ ~FGt(log_L, fit_log_L))
             => /\ pc' = "Returned"
                /\ gmm' = fit_gmm_
                /\ U' = U_
                /\ fit_log_L' = fit_log_L
                /\ split_n_merge' = split_n_merge]_emvars

C7_Witness ==
    /\ pc = "Returned"
    /\ K >= 3
    /\ split_n_merge > 0
    /\ gmm = fit_gmm_
    /\ U = U_

C9_SmallMixtureIsConfigurationError ==
    (K < 3 /\ split_n_merge > 0) => (~ran_estep /\ pc # "Returned")

\* C9, as the code behaves: a request for split-and-merge on fewer than 3
\* components raises nothing of its own; fit runs the plain EM fit, begins
\* no split-and-merge round and returns that fit's result.
C9_SmallMixtureSkipsSplitMerge ==
    (K < 3 /\ split_n_merge > 0) =>
        /\ pc \in {"fit", "EM0", "Loop", "Returned", "RuntimeError", "TypeError"}
        /\ U_ = <<>>
        /\ pc = "Returned" => (ran_estep /\ fit_log_L # Unset)

C9_Witness == K = 2 /\ split_n_merge > 0 /\ pc = "Returned" /\ ran_estep

\* C10: a call whose configuration is none of the configuration errors
\* never raises to the caller.
C10_OnlyConfigurationErrorsRaise ==
    pc \in Raised =>
        \/ covarSet /\ sel # "none" /\ ~covarCb
        \/ K < 3 /\ split_n_merge > 0

\* C11: one call of fit begins at most as many split-and-merge rounds as the
\* retry budget the caller passed: an accepted round takes one unit of the
\* budget, a round that does not improve ends the heuristic, and the call
\* comes to an end (it returns or raises).
\* Termination is stated by a variant: FitRank is a natural number that
\* every step of the call decreases.
FitRank ==
    LET stage == CASE pc = "fit" -> 5
                   [] pc = "EM0" -> 4
                   [] pc = "Loop" -> 3
                   [] pc = "EMP" -> 2
                   [] pc = "EMF" -> 1
                   [] OTHER -> 0
        left  == IF st = "Iterating" THEN maxiter - it + 1 ELSE 0
    IN  split_n_merge * 6 * (maxiter + 2) + stage * (maxiter + 2) + left

C11_RoundsWithinBudget ==
    /\ [](/\ rounds <= budget
          /\ split_n_merge >= 0
          /\ pc \in {"fit", "EM0", "Loop"} => rounds = budget - split_n_merge
          /\ pc \in {"EMP", "EMF"} => rounds = budget - split_n_merge + 1
          /\ FitRank >= 0
          /\ pc \in {"EM0", "EMP", "EMF"} => st \in {"Iterating"} \cup Done)
    /\ [][FitRank' < FitRank]_emvars

C11_Witness ==
    /\ pc = "Returned"
    /\ budget > 1
    /\ rounds = budget
    /\ split_n_merge = 0

\* C12: with a cutoff configured, after every E-step and for every component
\* k whose parameters are numbers: every sample in k's neighborhood has a
\* squared Mahalanobis distance to k below the chi-square cutoff, and every
\* sample outside it a distance at or above the cutoff, under the parameters
\* the E-step evaluated.  (A neighborhood the driver nulls right after the
\* E-step, because the component moved, is not looked at.)
C12_NeighborhoodIsCutoffBall ==
    [][(st = "Iterating" /\ cutoff # None)
       => \A k \in Comps :
            (U'[k] # NoneU /\ ~IsNaN(gmm.mean[k]) /\ ~IsNaN(gmm.covar[k]))
            => \A i \in Samples :
                 /\ i \in U'[k]
                      => FLt(Chi2(X(i), gmm.mean[k], gmm.covar[k]), CutoffNd)
                 /\ i \notin U'[k]
                      => FGe(Chi2(X(i), gmm.mean[k], gmm.covar[k]), CutoffNd)]_emvars

\* C16: the E-step and the M-step on the imputed samples apply no
\* truncation: in every iteration every imputed sample belongs to the
\* neighborhood of every component, with or without a cutoff.
C16_ImputedSamplesUntruncated ==
    (st = "Stepped" /\ sel # "none" /\ len2 > 0)
        => \A k \in Comps : U2[k] = NoneU \/ U2[k] = 1..len2

\* C23: with a cutoff, a neighborhood that is not None before an iteration
\* of _EM and not None after it is a subset of what it was: the E-step only
\* removes samples, and a removed sample stays out until the neighborhood is
\* set to None or a split-and-merge round replaces it.
C23_NeighborhoodsOnlyShrink ==
    [][(st = "Iterating" /\ cutoff # None)
       => \A k \in Comps :
            (U[k] # NoneU /\ U'[k] # NoneU) => U'[k] \subseteq U[k]]_emvars

\* after two iterations or more with a cutoff, a component holds a
\* neighborhood that has lost a sample and kept another
C23_Witness ==
    /\ st = "Iterating"
    /\ cutoff # None
    /\ it > 1
    /\ \E k \in Comps : U[k] \notin {NoneU, {}, Samples}

\* C19: a split-and-merge round runs _EM restricted to the three altered
\* components and then _EM on all components, in that order; an iteration of
\* the restricted run leaves amplitude, mean and covariance of every other
\* component as they were, and the amplitudes of the three altered
\* components sum to 1 minus the total amplitude of the others.
C19_RestrictedThenFull ==
    [][/\ pc' = "EMP" => /\ pc \in {"Loop", "EMP"}
                         /\ altered' \subseteq Comps
                         /\ Cardinality(altered') = 3
       /\ pc' = "EMF" => /\ pc \in {"EMP", "EMF"}
                         /\ altered' = NoneU
       /\ pc = "EMP" => pc' \in {"EMP", "EMF"}
       /\ pc = "EMF" => pc' \in {"EMF", "Loop", "Returned"}
       /\ (pc = "EMP" /\ pc' = "EMP")
            => /\ \A k \in Comps \ altered :
                    /\ gmm'.amp[k] = gmm.amp[k]
                    /\ gmm'.mean[k] = gmm.mean[k]
                    /\ gmm'.covar[k] = gmm.covar[k]
               /\ FSum(gmm'.amp, altered)
                    = FSub(F(1), FSum(gmm'.amp, Comps \ altered))]_emvars

\* the restricted run of a round has iterated and changed an altered
\* component, one component is outside the round, and the full run follows
C19_Witness ==
    /\ pc = "EMF"
    /\ K = 4
    /\ it > 0
    /\ snm # <<>>
    /\ \E k \in Comps \ {snm.a0, snm.a1, snm.a2} : FGt(gmm.amp[k], F(0))

(* ===================== the _EM loop with a background ================== *)
\* background.p = 1 / volume of the footprint: the footprint is [0, 4]
BgP == Frac(1, 4)

\* the mixture density S_i = sum_k p(x_i | k) of a sample, relative to the
\* density at which the sample is as likely signal as background: a third
\* of it (the sample is taken for background), or three times
SGrid == {Frac(1, 3), F(3)}

BadParams(g) ==
    \E k \in Comps : IsNaN(g.amp[k]) \/ IsNaN(g.mean[k]) \/ IsNaN(g.covar[k])

\* the density at which q_bg = 1/2 for the background amplitude a
SEven(a) == IF IsNaN(a) \/ a = F(0) \/ a = F(1) THEN F(1)
            ELSE FDiv(FMul(a, BgP), FSub(F(1), a))

\* the densities S of n samples under the mixture g
SDraws(g, a, n) ==
    IF BadParams(g) THEN {[i \in 1..n |-> NaN]}
    ELSE {[i \in 1..n |-> FMul(r[i], SEven(a))] : r \in [1..n -> SGrid]}

\* q_bg = p_bg / (p_bg + (1 - background.amp) * S)
Qbg(a, S_i) ==
    FDiv(FMul(a, BgP), FAdd(FMul(a, BgP), FMul(FSub(F(1), a), S_i)))

\* _Estep with a background on n samples: q_bg, H = q_bg < 0.5, and U[k] = H
\* for every component
EstepBgOf(g, q, n) ==
    [U |-> [k \in Comps |-> {i \in 1..n : FLt(q[i], Frac(1, 2))}],
     H |-> {i \in 1..n : FLt(q[i], Frac(1, 2))},
     P |-> IF BadParams(g) THEN {i \in 1..n : FLt(q[i], Frac(1, 2))} ELSE {},
     q |-> q,
     B |-> FSum(q, 1..n)]

EstepBg(g, a, S, n) ==
    CHOOSE e \in {EstepBgOf(g, q, n) : q \in {[i \in 1..n |-> Qbg(a, S[i])]}} : TRUE

\* log_L = log((1 - amp) S + amp p).mean()
EstepBgLogL(a, S, n) ==
    IF IsNaN(a) \/ \E i \in 1..n : IsNaN(S[i]) THEN {NaN} ELSE LVals

\* _update: "recompute background amplitude"; B2 and size2 are 0 when H2 is 0
UpdateBg(a, B, size, B2, size2, adjust, amp_max) ==
    IF adjust THEN FMin(FDiv(FAdd(B, B2), F(size + size2)), amp_max) ELSE a

\* the imputation of _EMstep with a background: len(data2) samples pass the
\* inverted selection; their E-step and M-step give N2 = H2.sum(), the sums
\* of the components and B2
ImputeBg(g, a, size) ==
    {[N2 |-> 0, s2 |-> NoStats, len |-> 0, B2 |-> F(0)]}
    \cup UNION {UNION {
            {[N2 |-> Cardinality(e2.H), s2 |-> Msums(e2, d), len |-> n, B2 |-> e2.B] :
                d \in Draws(e2, ImpGrid)}
            : e2 \in {EstepBg(g, a, S2, n) : S2 \in SDraws(g, a, n)}}
          : n \in 1..(IF size < MaxN2 THEN size ELSE MaxN2)}

\* one pass of the loop body of _EM with a background
EMiterBg ==
    /\ st = "Iterating"
    /\ bg_on
    /\ ~(sel # "none" /\ IsNaN(bg_amp))
    /\ \E S \in SDraws(gmm, bg_amp, NData) :
       \E e \in {EstepBg(gmm, bg_amp, S, NData)} :
       \E l \in EstepBgLogL(bg_amp, S, NData), d \in Draws(e, GridCoarse) :
       \E imp \in (IF sel = "none"
                   THEN {[N2 |-> N2, s2 |-> NoStats, len |-> 0, B2 |-> F(0)]}
                   ELSE ImputeBg(gmm, bg_amp, Cardinality(e.H) + N2)) :
       \E s \in {Msums(e, d)} :
       \E g1 \in {Update(gmm, s, Cardinality(e.H), imp.s2, imp.N2, w, altered)} :
       \E mv \in {Moved(g1, gmm_, ShiftCutoff)} :
         /\ log_L_' = l
         /\ N' = Cardinality(e.H)
         /\ N2' = imp.N2
         /\ U' = e.U
         /\ bg_amp' = UpdateBg(bg_amp, e.B, NData, imp.B2, imp.len,
                               bg_adjust, bg_amp_max)
         /\ IF Regressed(l)
            THEN /\ gmm' = Revert(g1, gmm_)
                 /\ st' = "Reverted"
                 /\ UNCHANGED <<gmm_, log_L, it, iter_gmm, iter_L>>
            ELSE IF Stable(l, mv)
            THEN /\ gmm' = g1
                 /\ log_L' = l
                 /\ st' = "Converged"
                 /\ iter_L' = iter_gmm
                 /\ iter_gmm' = iter_gmm + 1
                 /\ UNCHANGED <<gmm_, it>>
            ELSE /\ gmm' = g1
                 /\ log_L' = l
                 /\ gmm_' = g1
                 /\ it' = it + 1
                 /\ iter_L' = iter_gmm
                 /\ iter_gmm' = iter_gmm + 1
                 /\ st' = IF it + 1 < maxiter THEN "Iterating" ELSE "Capped"
    /\ ran_estep' = TRUE
    /\ UNCHANGED <<chvars, parvars, cvvars, drawvars, histvars, bg_on, bg_adjust, bg_amp_max, K, cutoff, sel, w, tol,
                   altered, A, A2, fitvars, pc>>

\* _I with a background: bg_size = int(background.amp * size) raises
\* ValueError when the amplitude is NaN, after the E-step and the M-step
EMraiseBg ==
    /\ st = "Iterating"
    /\ bg_on
    /\ sel # "none"
    /\ IsNaN(bg_amp)
    /\ \E S \in SDraws(gmm, bg_amp, NData) :
       \E e \in {EstepBg(gmm, bg_amp, S, NData)} :
         /\ U' = e.U
         /\ N' = Cardinality(e.H)
    /\ st' = "Raised"
    /\ pc' = "ValueError"
    /\ ran_estep' = TRUE
    /\ UNCHANGED <<auxvars, K, cutoff, sel, w, tol, altered, gmm, gmm_, log_L,
                   log_L_, it, N2, iter_gmm, iter_L, A, A2, fitvars>>

\* entry of _EM as fit calls it with a background: fit has set cutoff to
\* None; the caller has configured the background with an amplitude within
\* its cap
InitBg ==
    /\ K \in {1, 2}
    /\ cutoff = None
    /\ sel \in {"none", "points_gmm"}
    /\ sel = "points_gmm" => K = 1
    /\ w = 0
    /\ tol = F(1)
    /\ altered = NoneU
    /\ \E m \in [Comps -> InitMeans] :
         gmm = [amp |-> UniformAmp, mean |-> [k \in Comps |-> F(m[k])],
                covar |-> [k \in Comps |-> InitCovar]]
    /\ gmm_ = gmm
    /\ U = [k \in Comps |-> NoneU]
    /\ log_L = Unset
    /\ log_L_ = Unset
    /\ it = 0
    /\ N = 0
    /\ N2 = 0
    /\ st = "Iterating"
    /\ iter_gmm = 0
    /\ iter_L = -1
    /\ A = <<>>
    /\ A2 = <<>>
    /\ covarSet = FALSE
    /\ covarCb = FALSE
    /\ split_n_merge = 0
    /\ fit_gmm_ = <<>>
    /\ U_ = <<>>
    /\ fit_log_L = Unset
    /\ fit_N = 0
    /\ pc = "EM0"
    /\ ran_estep = FALSE
    /\ HistIdle
    /\ DrawIdle
    /\ CvIdle
    /\ ParIdle
    /\ ChIdle
    /\ bg_on = TRUE
    /\ bg_amp \in {F(0), Frac(1, 2)}
    /\ bg_adjust \in BOOLEAN
    /\ bg_amp_max \in {Frac(1, 2), F(1)}

NextBg == EMiterBg \/ EMraiseBg

SpecBg == InitBg /\ [][NextBg]_emvars

\* C13: in a fit with a background, after every iteration the background
\* amplitude is at most amp_max and lies in [0, 1], whether it is
\* re-estimated or held fixed, with and without imputation.
C13_BackgroundAmplitudeCapped ==
    bg_on => /\ FGe(bg_amp_max, bg_amp)
             /\ FGe(bg_amp, F(0))
             /\ FGe(F(1), bg_amp)

\* C24: when _EM reverts after a likelihood regression with a background
\* whose amplitude is re-estimated, the background amplitude is again the one
\* before the reverted iteration, as the mixture is.
C24_RevertRestoresBackground ==
    [][(st = "Iterating" /\ st' = "Reverted" /\ bg_on /\ bg_adjust)
       => /\ gmm' = gmm_
          /\ bg_amp' = bg_amp]_emvars

(* =============================== GMM.draw ============================== *)
\* the mixture, the fit and the background at rest, for the operations that
\* do not run a fit
FitLocalsIdle ==
    /\ cutoff = None
    /\ w = 0
    /\ tol = F(1)
    /\ altered = NoneU
    /\ gmm_ = <<>>
    /\ U = <<>>
    /\ log_L = Unset
    /\ log_L_ = Unset
    /\ it = 0
    /\ N = 0
    /\ N2 = 0
    /\ st = "Idle"
    /\ iter_gmm = 0
    /\ iter_L = -1
    /\ A = <<>>
    /\ A2 = <<>>
    /\ covarSet = FALSE
    /\ covarCb = FALSE
    /\ split_n_merge = 0
    /\ fit_gmm_ = <<>>
    /\ U_ = <<>>
    /\ fit_log_L = Unset
    /\ fit_N = 0
    /\ ran_estep = FALSE

FitIdle ==
    /\ K = 1
    /\ gmm = [amp |-> UniformAmp, mean |-> [k \in Comps |-> F(0)],
              covar |-> [k \in Comps |-> InitCovar]]
    /\ FitLocalsIdle

fitrestvars == <<K, cutoff, w, tol, altered, gmm_, U, log_L, log_L_, it, N,
                 N2, st, iter_gmm, iter_L, A, A2, fitvars, ran_estep>>

fitidlevars == <<gmm, fitrestvars>>

\* sel_ = sel_callback(samples), inverted when invert_callback is set
SelOf(samples, inv) == [i \in 1..Len(samples) |-> samples[i] # inv]

\* sel_.sum()
SizeIn(sel_) == Cardinality({i \in 1..Len(sel_) : sel_[i]})

\* samples[sel_]
RECURSIVE Masked(_, _)
Masked(samples, sel_) ==
    IF samples = <<>> THEN <<>>
    ELSE (IF Head(sel_) THEN <<Head(samples)>> ELSE <<>>)
         \o Masked(Tail(samples), Tail(sel_))

\* the size of the recursive call: size - size_in
ShortfallWhole(size, size_in) == size

Shortfall(size, size_in) == size - size_in

Pop(stack) == SubSeq(stack, 1, Len(stack) - 1)

\* the body of draw up to its return or its recursive call: size points are
\* drawn; without callback, or when all of them pass, they are returned;
\* otherwise draw calls itself for the shortfall
DrawBody ==
    /\ pc = "draw"
    /\ d_stack # <<>>
    /\ d_stack[Len(d_stack)].at = "call"
    /\ LET f == d_stack[Len(d_stack)]
       IN  \E samples \in [1..f.size -> BOOLEAN] :
           \E sel_ \in {SelOf(samples, d_invert)} :
             IF sel = "none" \/ SizeIn(sel_) = f.size
             THEN /\ d_ret' = samples
                  /\ d_stack' = Pop(d_stack)
                  /\ pc' = IF Len(d_stack) = 1 THEN "Returned" ELSE "draw"
             ELSE IF Len(d_stack) < MaxDepth
             THEN /\ d_stack' =
                       Append([d_stack EXCEPT ![Len(d_stack)] =
                                  [size |-> f.size, samples |-> samples, at |-> "wait"]],
                              [size |-> Shortfall(f.size, SizeIn(sel_)),
                               samples |-> <<>>, at |-> "call"])
                  /\ d_ret' = <<>>
                  /\ pc' = "draw"
             ELSE /\ d_stack' = [d_stack EXCEPT ![Len(d_stack)] =
                                  [size |-> f.size, samples |-> samples, at |-> "wait"]]
                  /\ d_ret' = <<>>
                  /\ pc' = "RecursionError"
    /\ UNCHANGED <<chvars, parvars, cvvars, histvars, bgvars, d_size, d_invert, sel, fitidlevars>>

\* the recursive call has returned ssamples:
\* samples = np.concatenate((samples[sel_], ssamples)); return samples
DrawResume ==
    /\ pc = "draw"
    /\ d_stack # <<>>
    /\ d_stack[Len(d_stack)].at = "wait"
    /\ LET f == d_stack[Len(d_stack)]
       IN  d_ret' = Masked(f.samples, SelOf(f.samples, d_invert)) \o d_ret
    /\ d_stack' = Pop(d_stack)
    /\ pc' = IF Len(d_stack) = 1 THEN "Returned" ELSE "draw"
    /\ UNCHANGED <<chvars, parvars, cvvars, histvars, bgvars, d_size, d_invert, sel, fitidlevars>>

\* a call gmm.draw(size, sel_callback, invert_callback)
InitDraw ==
    /\ FitIdle
    /\ HistIdle
    /\ BgIdle
    /\ CvIdle
    /\ ParIdle
    /\ ChIdle
    /\ sel \in {"none", "points"}
    /\ d_size \in 0..MaxDraw
    /\ d_invert \in BOOLEAN
    /\ d_stack = <<[size |-> d_size, samples |-> <<>>, at |-> "call"]>>
    /\ d_ret = <<>>
    /\ pc = "draw"

NextDraw == DrawBody \/ DrawResume

SpecDraw == InitDraw /\ [][NextDraw]_emvars

\* C14: draw(size = n, sel_callback = s, invert_callback = b) returns exactly
\* n points, each of which passes s (fails s when b is set); every recursive
\* call asks for exactly the shortfall of the call that makes it, which is
\* smaller than that call's size whenever it accepted a point, and no
\* recursive call is made for a shortfall of 0.
C14_DrawReturnsRequestedSize ==
    /\ pc = "Returned"
         => /\ Len(d_ret) = d_size
            /\ sel # "none" => \A i \in 1..Len(d_ret) : d_ret[i] # d_invert
    /\ \A j \in 2..Len(d_stack) :
         LET accepted == SizeIn(SelOf(d_stack[j - 1].samples, d_invert))
         IN  /\ d_stack[j].size = d_stack[j - 1].size - accepted
             /\ d_stack[j].size > 0
             /\ accepted > 0 => d_stack[j].size < d_stack[j - 1].size

C14_Witness ==
    /\ pc = "Returned"
    /\ sel = "points"
    /\ d_invert
    /\ d_size = MaxDraw
    /\ Len(d_ret) = MaxDraw
    /\ \A i \in 1..Len(d_ret) : ~d_ret[i]

(* ================================ cv_fit =============================== *)
\* a mask that takes the sample numbers for the indices
MaskOneBased(i, L) == {n \in Samples : n % L = i}

\* mask = np.arange(N) % L == i: the samples held out in fold i (0-based i,
\* samples numbered from 1)
Mask(i, L) == {n \in Samples : (n - 1) % L = i}

\* the mixtures a call of fit can leave in gmm
CvMixtures ==
    {[amp |-> UniformAmp, mean |-> [k \in Comps |-> F(m)],
      covar |-> [k \in Comps |-> F(v)]] : m \in {0, 1}, v \in {4, 16}}

\* "undo for consistency": the three slice assignments from gmm0
UndoKeepCovar(g, g0) == [amp |-> g0.amp, mean |-> g0.mean, covar |-> g.covar]

Undo(g, g0) == [amp |-> g0.amp, mean |-> g0.mean, covar |-> g0.covar]

\* entry of cv_fit up to the loop: the init_callback test, the generator
\* state, the copy of the mixture and of the background amplitude
CvEnter ==
    /\ pc = "cv"
    /\ IF cv_initcb
       THEN /\ pc' = "RuntimeError"
            /\ UNCHANGED <<rng_state, gmm0, bg_amp0>>
       ELSE /\ rng_state' = rng
            /\ gmm0' = gmm
            /\ bg_amp0' = IF bg_on THEN bg_amp ELSE bg_amp0
            /\ pc' = "cv_loop"
    /\ UNCHANGED <<chvars, parvars, histvars, bgvars, drawvars, cv_L, cv_initcb, cv_i, rng, lcv,
                   cv_entry, cv_train, lcv_by, sel, fitidlevars>>

\* the head of the loop and rng.set_state(rng_state); return lcv after the
\* last fold
CvSetState ==
    /\ pc = "cv_loop"
    /\ IF cv_i < cv_L
       THEN /\ rng' = rng_state
            /\ pc' = "cv_fit"
       ELSE /\ pc' = "Returned"
            /\ UNCHANGED rng
    /\ UNCHANGED <<chvars, parvars, histvars, bgvars, drawvars, cv_L, cv_initcb, cv_i, gmm0, bg_amp0,
                   rng_state, lcv, cv_entry, cv_train, lcv_by, sel, fitidlevars>>

\* fit(gmm, data[~mask], ...) and lcv[mask] = gmm.logL(data[mask]): fit
\* leaves some mixture in gmm, re-estimates an adjustable background
\* amplitude and uses the generator
CvFit ==
    /\ pc = "cv_fit"
    /\ gmm' \in CvMixtures
    /\ bg_amp' \in (IF bg_on /\ bg_adjust THEN {F(0), Frac(1, 4)} ELSE {bg_amp})
    /\ rng' \in 0..MaxRng
    /\ \E l \in [Mask(cv_i, cv_L) -> LVals] :
         lcv' = [n \in Samples |-> IF n \in Mask(cv_i, cv_L) THEN l[n] ELSE lcv[n]]
    /\ cv_train' = Append(cv_train, Samples \ Mask(cv_i, cv_L))
    /\ lcv_by' = [n \in Samples |-> IF n \in Mask(cv_i, cv_L)
                                     THEN Append(lcv_by[n], cv_i) ELSE lcv_by[n]]
    /\ pc' = "cv_undo"
    /\ UNCHANGED <<chvars, parvars, histvars, drawvars, bg_on, bg_adjust, bg_amp_max, cv_L, cv_initcb,
                   cv_i, gmm0, bg_amp0, rng_state, cv_entry, sel, fitrestvars>>

\* "undo for consistency", and the next i
CvUndo ==
    /\ pc = "cv_undo"
    /\ gmm' = Undo(gmm, gmm0)
    /\ bg_amp' = IF bg_on THEN bg_amp0 ELSE bg_amp
    /\ cv_i' = cv_i + 1
    /\ pc' = "cv_loop"
    /\ UNCHANGED <<chvars, parvars, histvars, drawvars, bg_on, bg_adjust, bg_amp_max, cv_L, cv_initcb,
                   gmm0, bg_amp0, rng, rng_state, lcv, cv_entry, cv_train, lcv_by, sel,
                   fitrestvars>>

\* a call cv_fit(gmm, data, L, **kwargs)
InitCV ==
    /\ K = 1
    /\ gmm \in CvMixtures
    /\ FitLocalsIdle
    /\ HistIdle
    /\ DrawIdle
    /\ ParIdle
    /\ ChIdle
    /\ sel \in {"none", "points_gmm"}
    /\ bg_on \in BOOLEAN
    /\ bg_amp \in (IF bg_on THEN {F(0), Frac(1, 2)} ELSE {None})
    /\ bg_adjust \in (IF bg_on THEN BOOLEAN ELSE {FALSE})
    /\ bg_amp_max = IF bg_on THEN F(1) ELSE None
    /\ cv_L \in 1..MaxFolds
    /\ cv_initcb \in BOOLEAN
    /\ cv_i = 0
    /\ gmm0 = <<>>
    /\ bg_amp0 = None
    /\ rng \in 0..MaxRng
    /\ rng_state = 0
    /\ lcv = [n \in Samples |-> Unset]
    /\ cv_entry = [gmm |-> gmm, bg_amp |-> bg_amp, rng |-> rng]
    /\ cv_train = <<>>
    /\ lcv_by = [n \in Samples |-> <<>>]
    /\ pc = "cv"

NextCV == CvEnter \/ CvSetState \/ CvFit \/ CvUndo

SpecCV == InitCV /\ [][NextCV]_emvars

\* C15: every fold's call of fit starts from the mixture parameters, the
\* background amplitude and the generator state that cv_fit was entered
\* with (so the folds, and two runs from the same entry state, see the same
\* inputs), and when cv_fit returns the mixture parameters and the
\* background amplitude are those of the entry.
C15_FoldsStartFromEntryState ==
    /\ pc = "cv_fit"
         => /\ gmm = cv_entry.gmm
            /\ bg_amp = cv_entry.bg_amp
            /\ rng = cv_entry.rng
    /\ pc = "Returned"
         => /\ gmm = cv_entry.gmm
            /\ bg_amp = cv_entry.bg_amp

C15_Witness ==
    /\ pc = "cv_fit"
    /\ cv_i > 0
    /\ bg_on /\ bg_adjust
    /\ gmm = cv_entry.gmm
    /\ rng = cv_entry.rng
    /\ \E n \in Samples : lcv[n] # Unset

\* C25: in cv_fit with L folds, the sample with index i (sample i + 1 here)
\* is held out in fold i mod L and in no other: it is missing from the
\* training data of that fold and present in that of every other fold, and
\* its lcv entry is written exactly once, in that fold.
C25_EachSampleHeldOutOnce ==
    /\ \A n \in DOMAIN lcv_by :
         /\ Len(lcv_by[n]) <= 1
         /\ \A j \in 1..Len(lcv_by[n]) : lcv_by[n][j] = (n - 1) % cv_L
         /\ lcv[n] # Unset <=> lcv_by[n] # <<>>
    /\ \A f \in 1..Len(cv_train) :
         cv_train[f] = {n \in Samples : (n - 1) % cv_L # f - 1}
    /\ (pc = "Returned" /\ cv_L > 0)
         => /\ Len(cv_train) = cv_L
            /\ \A n \in Samples : lcv_by[n] = <<(n - 1) % cv_L>>

\* cv_fit has returned from more than one fold with every entry written,
\* not all of them in the first fold
C25_Witness ==
    /\ pc = "Returned"
    /\ cv_L > 1
    /\ \A n \in Samples : lcv[n] # Unset
    /\ \E n \in Samples : lcv_by[n] # <<0>>

(* ========================= _findSNMComponents ========================== *)
\* the mixtures and neighborhoods a call is followed for: amplitudes that sum
\* to one, a narrow or a wide covariance, and index lists as an E-step with
\* cutoff leaves them (fit raises on a None neighborhood before the call):
\* component k holds no sample, its own, its own and the first, or all, so
\* that the neighborhoods can be pairwise disjoint
SNMAmps == {Frac(1, 2), Frac(1, 4), Frac(1, 8)}
SNMCovars == {F(1), F(16)}
SNMHoods(k) == <<{}, {k}, {1, k}, 1..SNMData>>

\* _findSNMComponents returns altered and cleanup
SNMFind ==
    /\ pc = "snm"
    /\ \A k \in Comps : U[k] # {}
    /\ snm' \in FindSNM(gmm, U)
    /\ pc' = "Found"
    /\ UNCHANGED <<chvars, parvars, cvvars, drawvars, bgvars, budget, rounds, U2, len2, sel,
                   fitidlevars>>

\* match1d raises ValueError on an empty index list
SNMFindRaise ==
    /\ pc = "snm"
    /\ \E k \in Comps : U[k] = {}
    /\ pc' = "ValueError"
    /\ UNCHANGED <<auxvars, sel, fitidlevars>>

InitSNM ==
    /\ K \in {3, 4}
    /\ \E a \in [Comps -> SNMAmps], c \in [Comps -> SNMCovars] :
         /\ FSum(a, Comps) = F(1)
         /\ gmm = [amp |-> a, mean |-> [k \in Comps |-> F(0)], covar |-> c]
    /\ \E h \in [Comps -> 1..4] : U = [k \in Comps |-> SNMHoods(k)[h[k]]]
    /\ cutoff = F(2)
    /\ sel = "none"
    /\ w = 0
    /\ tol = F(1)
    /\ altered = NoneU
    /\ gmm_ = <<>>
    /\ log_L = Unset
    /\ log_L_ = Unset
    /\ it = 0
    /\ N = 0
    /\ N2 = 0
    /\ st = "Idle"
    /\ iter_gmm = 0
    /\ iter_L = -1
    /\ A = <<>>
    /\ A2 = <<>>
    /\ covarSet = FALSE
    /\ covarCb = FALSE
    /\ split_n_merge = 0
    /\ fit_gmm_ = <<>>
    /\ U_ = <<>>
    /\ fit_log_L = Unset
    /\ fit_N = SNMData
    /\ ran_estep = FALSE
    /\ pc = "snm"
    /\ AuxIdle

\* _update_snm(gmm, altered, U, N+N2, cleanup), as fit calls it next
SNMUpdate ==
    /\ pc = "Found"
    /\ \E sgn \in {-1, 1} :
       \E u \in {UpdateSNM(gmm, U, snm, fit_N, sgn)} :
         /\ gmm' = u.gmm
         /\ U' = u.U
    /\ pc' = "Updated"
    /\ UNCHANGED <<auxvars, sel, K, cutoff, w, tol, altered, gmm_, log_L, log_L_,
                   it, N, N2, st, iter_gmm, iter_L, A, A2, fitvars, ran_estep>>

NextSNM == SNMFind \/ SNMFindRaise \/ SNMUpdate

SpecSNM == InitSNM /\ [][NextSNM]_emvars

\* C18: for K >= 3 the three indices _findSNMComponents returns are pairwise
\* distinct, and the component to split has the largest amplitude-weighted
\* singular value among the components outside the merge pair, also when the
\* two largest belong to the merge pair.
C18_SNMIndicesDistinct ==
    pc = "Found" =>
        /\ snm.a0 # snm.a1
        /\ snm.a2 \notin {snm.a0, snm.a1}
        /\ \A k \in Comps \ {snm.a0, snm.a1} : SortLe(JS(gmm)[k], JS(gmm)[snm.a2])

\* the two largest values belong to the merge pair; the third is split
C18_Witness ==
    /\ pc = "Found"
    /\ FLt(JS(gmm)[snm.a2], JS(gmm)[snm.a0])
    /\ FLt(JS(gmm)[snm.a2], JS(gmm)[snm.a1])
    /\ \E k \in Comps \ {snm.a0, snm.a1, snm.a2} : FLt(JS(gmm)[k], JS(gmm)[snm.a2])

\* C22: _update_snm, applied to three pairwise distinct components, gives
\* the merged component the sum of the two merged amplitudes and each of the
\* two children half of the split parent's amplitude, changes no other
\* amplitude, preserves the total and keeps every amplitude non-negative,
\* in the regular merge and in the cleanup merge.
C22_UpdateSNMPreservesAmplitude ==
    [][(pc = "Found" /\ pc' = "Updated")
       => /\ Cardinality({snm.a0, snm.a1, snm.a2}) = 3
          /\ gmm'.amp[snm.a0] = FAdd(gmm.amp[snm.a0], gmm.amp[snm.a1])
          /\ gmm'.amp[snm.a1] = FDiv(gmm.amp[snm.a2], F(2))
          /\ gmm'.amp[snm.a2] = FDiv(gmm.amp[snm.a2], F(2))
          /\ \A k \in Comps \ {snm.a0, snm.a1, snm.a2} : gmm'.amp[k] = gmm.amp[k]
          /\ FSum(gmm'.amp, Comps) = FSum(gmm.amp, Comps)
          /\ \A k \in Comps : FGe(gmm'.amp[k], F(0))]_emvars

\* a cleanup merge has been applied to a mixture of four components with
\* unequal amplitudes
C22_Witness ==
    /\ pc = "Updated"
    /\ snm.cleanup
    /\ K = 4
    /\ gmm.amp[snm.a0] # gmm.amp[snm.a1]
    /\ FSum(gmm.amp, Comps) = F(1)

(* ================ _Estep and _Mstep through their workers ============== *)
\* everything but the neighborhoods and the state of the two steps
parrestvars == <<K, cutoff, sel, w, tol, altered, gmm, gmm_, log_L, log_L_, it,
                 N, N2, st, iter_gmm, iter_L, A, A2, fitvars, pc, ran_estep,
                 histvars, bgvars, drawvars, cvvars, chvars>>

\* a slot nothing has been stored in (np.empty), and a list of such slots
Empty == [of |-> 0]

NoResults == [k \in Comps |-> Empty]

NoT == [k \in Comps |-> -1]

\* what _Esum returns for component j: log-densities on the neighborhood it
\* computed, that neighborhood, and T_inv_k (0: None, without covar)
EsumRes(j) ==
    CHOOSE r \in {[of |-> j, U |-> u, T |-> IF covarSet THEN j ELSE 0] :
                    u \in {Esum(j, U[j], gmm, CutoffNd)}} : TRUE

\* what _Msums returns for component j, given the draw dj of its
\* responsibilities
MsumsRes(j, dj) ==
    [of |-> j, s |-> Msums(EstepOf(gmm, U), [k \in Comps |-> dj])[j]]

\* the result the loop takes in its k-th pass, were the list in the order
\* the tasks finished
ResultAtFinish(res, order, k) == res[order[k]]

\* the k-th pass of "for ... in parmap.starmap(...)": the list is in the
\* order of the arguments
ResultAt(res, order, k) == res[k]

\* a write of the calling thread to log_S or H
Write(what) ==
    [by |-> "main", what |-> what, todo |-> par_todo,
     got |-> Cardinality({k \in Comps : par_res[k] # Empty})]

\* _Estep up to the call of parmap.starmap: log_S[:] = 0, H[:] = 0, k = 0
EstepMap ==
    /\ par_at = "Estep"
    /\ log_S' = [i \in Samples |-> {}]
    /\ H' = {}
    /\ par_writes' = par_writes \cup {Write("reset")}
    /\ par_k' = 1
    /\ par_todo' = Comps
    /\ par_res' = NoResults
    /\ par_order' = <<>>
    /\ par_at' = "Emap"
    /\ UNCHANGED <<log_p, T_inv, AMC, U, parrestvars>>

\* a worker finishes _Esum for some component
EsumDone ==
    /\ par_at = "Emap"
    /\ \E j \in par_todo :
         /\ par_res' = [par_res EXCEPT ![j] = EsumRes(j)]
         /\ par_todo' = par_todo \ {j}
         /\ par_order' = Append(par_order, j)
    /\ UNCHANGED <<par_at, par_k, log_p, T_inv, AMC, log_S, H, par_writes, U,
                   parrestvars>>

\* parmap.starmap has returned; one pass of the loop: the targets log_p[k],
\* U[k], T_inv[k], then log_S[U[k]] += np.exp(log_p[k]), H[U[k]] = 1, k += 1
EstepStore ==
    /\ par_at = "Emap"
    /\ par_todo = {}
    /\ par_k <= K
    /\ \E r \in {ResultAt(par_res, par_order, par_k)} :
         /\ log_p' = [log_p EXCEPT ![par_k] = [of |-> r.of, on |-> r.U]]
         /\ U' = [U EXCEPT ![par_k] = r.U]
         /\ T_inv' = [T_inv EXCEPT ![par_k] = r.T]
         /\ log_S' = [i \in Samples |->
                        IF i \in Members(r.U) THEN log_S[i] \cup {r.of}
                        ELSE log_S[i]]
         /\ H' = H \cup Members(r.U)
    /\ par_writes' = par_writes \cup {Write("add"), Write("flag")}
    /\ par_k' = par_k + 1
    /\ UNCHANGED <<par_at, par_todo, par_res, par_order, AMC, parrestvars>>

\* log_S[H] = np.log(log_S[H]), and _Estep returns to _EMstep, which calls
\* _Mstep
EstepLog ==
    /\ par_at = "Emap"
    /\ par_todo = {}
    /\ par_k > K
    /\ par_writes' = par_writes \cup {Write("log")}
    /\ par_at' = "Mstep"
    /\ UNCHANGED <<par_todo, par_res, par_order, par_k, log_p, T_inv, AMC,
                   log_S, H, U, parrestvars>>

\* _Mstep up to the call of parmap.starmap
MstepMap ==
    /\ par_at = "Mstep"
    /\ par_k' = 1
    /\ par_todo' = Comps
    /\ par_res' = NoResults
    /\ par_order' = <<>>
    /\ par_at' = "Mmap"
    /\ UNCHANGED <<log_p, T_inv, AMC, log_S, H, par_writes, U, parrestvars>>

\* a worker finishes _Msums for some component
MsumsDone ==
    /\ par_at = "Mmap"
    /\ \E j \in par_todo :
       \E dj \in (IF Members(U[j]) = {} THEN {Zero} ELSE DrawsOf(U[j], GridCoarse)) :
         /\ par_res' = [par_res EXCEPT ![j] = MsumsRes(j, dj)]
         /\ par_todo' = par_todo \ {j}
         /\ par_order' = Append(par_order, j)
    /\ UNCHANGED <<par_at, par_k, log_p, T_inv, AMC, log_S, H, par_writes, U,
                   parrestvars>>

\* one pass of the loop of _Mstep: the targets A[k], M[k,:], C[k,:,:]
MstepStore ==
    /\ par_at = "Mmap"
    /\ par_todo = {}
    /\ par_k <= K
    /\ AMC' = [AMC EXCEPT ![par_k] = ResultAt(par_res, par_order, par_k)]
    /\ par_k' = par_k + 1
    /\ UNCHANGED <<par_at, par_todo, par_res, par_order, log_p, T_inv, log_S,
                   H, par_writes, U, parrestvars>>

\* _Mstep returns A, M, C, N, B
MstepReturn ==
    /\ par_at = "Mmap"
    /\ par_todo = {}
    /\ par_k > K
    /\ par_at' = "done"
    /\ UNCHANGED <<par_todo, par_res, par_order, par_k, log_p, T_inv, AMC,
                   log_S, H, par_writes, U, parrestvars>>

\* the E-step of the first iteration of fit's first _EM: the buffers as fit
\* allocated them, every neighborhood None
InitPar ==
    /\ K \in {2, 3}
    /\ cutoff \in {None, F(2)}
    /\ covarSet \in BOOLEAN
    /\ covarCb = FALSE
    /\ sel = "none"
    /\ w = 0
    /\ tol = F(1)
    /\ altered = NoneU
    /\ \E m \in [Comps -> InitMeans] :
         gmm = [amp |-> UniformAmp, mean |-> [k \in Comps |-> F(m[k])],
                covar |-> [k \in Comps |-> InitCovar]]
    /\ gmm_ = gmm
    /\ U = [k \in Comps |-> NoneU]
    /\ log_L = Unset
    /\ log_L_ = Unset
    /\ it = 0
    /\ N = 0
    /\ N2 = 0
    /\ st = "Iterating"
    /\ iter_gmm = 0
    /\ iter_L = -1
    /\ A = <<>>
    /\ A2 = <<>>
    /\ split_n_merge = 0
    /\ fit_gmm_ = <<>>
    /\ U_ = <<>>
    /\ fit_log_L = Unset
    /\ fit_N = 0
    /\ pc = "EM0"
    /\ ran_estep = FALSE
    /\ HistIdle
    /\ BgIdle
    /\ DrawIdle
    /\ CvIdle
    /\ ChIdle
    /\ par_at = "Estep"
    /\ par_todo = {}
    /\ par_res = NoResults
    /\ par_order = <<>>
    /\ par_k = 0
    /\ log_p = NoResults
    /\ T_inv = NoT
    /\ AMC = NoResults
    /\ log_S = [i \in Samples |-> {}]
    /\ H = {}
    /\ par_writes = {}

NextPar ==
    \/ EstepMap
    \/ EsumDone
    \/ EstepStore
    \/ EstepLog
    \/ MstepMap
    \/ MsumsDone
    \/ MstepStore
    \/ MstepReturn

SpecPar == InitPar /\ [][NextPar]_emvars

\* C20: whatever the order in which the workers finish, slot k of log_p, U,
\* T_inv and of A, M, C holds the result computed for component k and no
\* other; log_S and H are written by the calling thread only, while no task
\* is running, and the densities are added and the members flagged after all
\* K results have arrived; the steps end with the neighborhoods, members and
\* sums of the steps computed in one piece.
C20_ResultsInOwnSlots ==
    /\ \A k \in Comps :
         /\ log_p[k] # Empty => (log_p[k].of = k /\ log_p[k].on = U[k])
         /\ T_inv[k] # -1 => T_inv[k] = (IF covarSet THEN k ELSE 0)
         /\ AMC[k] # Empty => AMC[k].of = k
         /\ U[k] \in {NoneU, Esum(k, NoneU, gmm, CutoffNd)}
         /\ (par_at \in {"Mstep", "Mmap", "done"} \/ k < par_k)
              => /\ log_p[k] # Empty
                 /\ U[k] = Esum(k, NoneU, gmm, CutoffNd)
         /\ par_at = "done" => AMC[k] # Empty
    /\ \A i \in Samples :
         /\ \A k \in log_S[i] : log_p[k] # Empty /\ i \in Members(log_p[k].on)
         /\ i \in H <=> log_S[i] # {}
    /\ par_at \in {"Mstep", "Mmap", "done"}
         => /\ H = EstepOf(gmm, U).H
            /\ \A i \in Samples : log_S[i] = {k \in Comps : i \in Members(U[k])}
    /\ \A wr \in par_writes :
         /\ wr.by = "main"
         /\ wr.todo = {}
         /\ wr.what \in {"add", "flag", "log"} => wr.got = K

\* both steps are through; the workers of the M-step finished in another
\* order than that of the components, whose neighborhoods differ
C20_Witness ==
    /\ par_at = "done"
    /\ K = 3
    /\ par_order = <<3, 1, 2>>
    /\ U[1] # U[3]
    /\ \E wr \in par_writes : wr.what = "add"

(* =========================== GMM._get_chunks =========================== *)
\* _mp_chunksize: <<n_chunks, chunksize>>; "/" divides integers
MpChunksize(k, c) ==
    LET chunksize == IF k \div c > 1 THEN k \div c ELSE 1
        n_chunks  == IF c < k \div chunksize THEN c ELSE k \div chunksize
    IN  <<n_chunks, chunksize>>

\* left = self.K - n_chunks*chunksize
Left(k, mp) == k - mp[1] * mp[2]

\* chunks of equal size
ChunkEndEven(n, chunksize, left, i) == n + chunksize

\* n_ = n + chunksize, and n_ += 1 if left > i
ChunkEnd(n, chunksize, left, i) == n + chunksize + (IF left > i THEN 1 ELSE 0)

chrestvars == <<parvars, cvvars, drawvars, bgvars, histvars, sel, fitidlevars,
                cpu_count>>

\* one pass of the loop of _get_chunks
GetChunksStep ==
    /\ ch_at = "chunks"
    /\ \E mp \in {MpChunksize(K, cpu_count)} :
         /\ ch_i < mp[1]
         /\ \E n_ \in {ChunkEnd(ch_n, mp[2], Left(K, mp), ch_i)} :
              /\ chunks' = Append(chunks, <<ch_n, n_>>)
              /\ ch_n' = n_
    /\ ch_i' = ch_i + 1
    /\ UNCHANGED <<ch_at, ch_todo, ch_sums, pc, chrestvars>>

\* _get_chunks returns, and logL hands every chunk to the pool
GetChunksReturn ==
    /\ ch_at = "chunks"
    /\ ch_i >= MpChunksize(K, cpu_count)[1]
    /\ ch_todo' = 1..Len(chunks)
    /\ ch_at' = "pool"
    /\ UNCHANGED <<ch_n, ch_i, chunks, ch_sums, pc, chrestvars>>

\* _logsum_chunk: a worker sums the components k of one chunk
LogsumChunk ==
    /\ ch_at = "pool"
    /\ \E j \in ch_todo :
         /\ ch_sums' = [k \in 0..(K - 1) |->
                          IF chunks[j][1] <= k /\ k < chunks[j][2]
                          THEN ch_sums[k] + 1 ELSE ch_sums[k]]
         /\ ch_todo' = ch_todo \ {j}
    /\ UNCHANGED <<ch_at, ch_n, ch_i, chunks, pc, chrestvars>>

\* every result is in: logsum over the chunks, and logL returns
LogLReturn ==
    /\ ch_at = "pool"
    /\ ch_todo = {}
    /\ ch_at' = "done"
    /\ pc' = "Returned"
    /\ UNCHANGED <<ch_n, ch_i, chunks, ch_todo, ch_sums, chrestvars>>

\* a call of logL on a mixture of K components
InitChunks ==
    /\ K \in 1..MaxChunkK
    /\ gmm = [amp |-> UniformAmp, mean |-> [k \in Comps |-> F(0)],
              covar |-> [k \in Comps |-> InitCovar]]
    /\ FitLocalsIdle
    /\ HistIdle
    /\ BgIdle
    /\ DrawIdle
    /\ CvIdle
    /\ ParIdle
    /\ sel = "none"
    /\ cpu_count \in 1..MaxCpu
    /\ ch_at = "chunks"
    /\ ch_n = 0
    /\ ch_i = 0
    /\ chunks = <<>>
    /\ ch_todo = {}
    /\ ch_sums = [k \in 0..(K - 1) |-> 0]
    /\ pc = "logL"

NextChunks == GetChunksStep \/ GetChunksReturn \/ LogsumChunk \/ LogLReturn

SpecChunks == InitChunks /\ [][NextChunks]_emvars

\* C21: for K >= 1 and cpu_count >= 1, _get_chunks returns at most cpu_count
\* ranges [n, n_) that are non-empty and contiguous, the first starting at 0
\* and the last ending at K, so that every component index in [0, K) lies in
\* exactly one of them; logL sums every component exactly once.
C21_ChunksPartitionComponents ==
    /\ \A j \in 1..Len(chunks) :
         /\ chunks[j][1] < chunks[j][2]
         /\ chunks[j][1] = (IF j = 1 THEN 0 ELSE chunks[j - 1][2])
    /\ ch_at \in {"pool", "done"}
         => /\ Len(chunks) >= 1
            /\ Len(chunks) <= cpu_count
            /\ chunks[Len(chunks)][2] = K
            /\ \A k \in 0..(K - 1) :
                 Cardinality({j \in 1..Len(chunks) :
                                chunks[j][1] <= k /\ k < chunks[j][2]}) = 1
    /\ ch_at = "done" => \A k \in 0..(K - 1) : ch_sums[k] = 1

\* logL has returned for a K that the workers do not divide: the chunks are
\* of two sizes
C21_Witness ==
    /\ ch_at = "done"
    /\ cpu_count > 1
    /\ K > cpu_count
    /\ Len(chunks) = cpu_count
    /\ chunks[1][2] - chunks[1][1] > chunks[Len(chunks)][2] - chunks[Len(chunks)][1]

====
